---- MODULE Spec2Model ----
(***************************************************************************)
(* Model of modules/planning/scenarios/side_pass/side_pass_scenario.cc:    *)
(* the side-pass scenario's transfer rule, its obstacle scan, the          *)
(* cross-cycle slot PlanningContext::GetScenarioInfo()->                   *)
(* side_pass_front_blocking_obstacle_id and the stage factory.             *)
(*                                                                         *)
(* Distances are doubles in the source; the model keeps them as integers   *)
(* in the same unit, with input values chosen on both sides of every       *)
(* threshold the code compares against.                                    *)
(***************************************************************************)
EXTENDS Integers, Sequences, FiniteSets, TLC

-----------------------------------------------------------------------------
(* Bounds of the model.                                                    *)

\* Longest list of first-encountered overlaps in a snapshot.
MaxOverlaps == 1
\* Most stage objects kept alive by one scenario instance.
MaxStages == 2
\* Longest list of first-encountered overlaps given to IsFarFromIntersection
\* when it is checked on its own.
MaxScannedOverlaps == 2

-----------------------------------------------------------------------------
(* Program constants.                                                      *)

kClearDistance == 15
kSidePassMaxDistance == 10
\* gflag read at line 191; its value is configuration, chosen here above
\* kClearDistance so that the two thresholds can be told apart.
FLAGS_side_pass_min_signal_intersection_distance == 16
\* Initial value of distance_to_closest_blocking_obstacle.
kNoClosestDistance == -100

-----------------------------------------------------------------------------
(* Input domains.                                                          *)

\* The empty std::string.
EmptyId == ""
ObstacleIds == {"a", "b"}

ScenarioTypes == {"LANE_FOLLOW", "SIDE_PASS", "STOP_SIGN_UNPROTECTED"}
ScenarioStatuses == {"STATUS_PROCESSING", "STATUS_DONE"}
StageTypes == {"SIDE_PASS_DEFAULT_STAGE", "SIDE_PASS_APPROACH_OBSTACLE"}
OverlapTypes == {"CLEAR_AREA", "CROSSWALK", "SIGNAL", "STOP_SIGN", "PNC_JUNCTION"}

AdcEndSValues == {0, 1}
ObstacleStartSValues == {0, 11}

\* An obstacle of the snapshot; blocking is the verdict of
\* IsBlockingObstacleToSidePass for this scenario's configuration.
Obstacles ==
    [id : ObstacleIds, is_static : BOOLEAN, start_s : ObstacleStartSValues,
     blocking : BOOLEAN]

\* An overlap starts at the clearance distance from an ego front edge at 0;
\* a signal overlap may also start at the signal distance, which is longer.
Overlaps ==
    [type : OverlapTypes, start_s : {kClearDistance}]
        \cup [type : {"SIGNAL"},
              start_s : {FLAGS_side_pass_min_signal_intersection_distance}]

SeqsUpTo(S, n) == UNION {[1..k -> S] : k \in 0..n}

\* The obstacle container is indexed by id: ids are unique, the order is the
\* scan order of Items().
ObstacleLists ==
    {s \in SeqsUpTo(Obstacles, Cardinality(ObstacleIds)) :
        \A i, j \in DOMAIN s : i # j => s[i].id # s[j].id}

OverlapLists == SeqsUpTo(Overlaps, MaxOverlaps)

Frame(n, adc, sd, ov, ob) ==
    [nref |-> n, adc_end_s |-> adc, sdist |-> sd, overlaps |-> ov,
     obstacles |-> ob]

\* Snapshots with one reference line, every obstacle list, far from the
\* destination and from every overlap.
ObstacleFrames ==
    {Frame(1, adc, 15, <<>>, ob) : adc \in AdcEndSValues, ob \in ObstacleLists}

\* A lane with nothing on it, with one static blocking obstacle ahead, and
\* with one moving obstacle ahead.
NoObstacle == <<>>
StaticBlocker ==
    <<[id |-> "a", is_static |-> TRUE, start_s |-> 11, blocking |-> TRUE]>>
MovingObstacle ==
    <<[id |-> "b", is_static |-> FALSE, start_s |-> 11, blocking |-> FALSE]>>

\* Snapshots with one reference line and every overlap list, near or far from
\* the destination, blocked or not.
RoadFrames ==
    {Frame(1, adc, c[1], ov, c[2]) :
        adc \in AdcEndSValues, ov \in OverlapLists,
        c \in {<<15, StaticBlocker>>, <<15, NoObstacle>>, <<14, StaticBlocker>>}}

\* Snapshots with no reference line: only the obstacles exist.
EmptyFrames ==
    {Frame(0, 0, 0, <<>>, ob) : ob \in {NoObstacle, StaticBlocker, MovingObstacle}}

\* Snapshots with two reference lines; the fields are those of the first.
AmbiguousFrames ==
    {[f EXCEPT !.nref = 2] :
        f \in {g \in ObstacleFrames \cup RoadFrames :
                  g.adc_end_s = 0 /\ Len(g.obstacles) <= 1}}

FrameSet == ObstacleFrames \cup RoadFrames \cup EmptyFrames \cup AmbiguousFrames

\* Overlaps of every type just below the clearance distance, at it, and at the
\* signal distance, from an ego front edge at 0.
ScannedOverlaps ==
    [type : OverlapTypes,
     start_s : {kClearDistance - 1, kClearDistance,
                FLAGS_side_pass_min_signal_intersection_distance}]

\* Snapshots with one reference line and every list of such overlaps.
IntersectionFrames ==
    {Frame(1, 0, kClearDistance, ov, NoObstacle) :
        ov \in SeqsUpTo(ScannedOverlaps, MaxScannedOverlaps)}

-----------------------------------------------------------------------------
(* External capabilities the scenario consumes.                            *)

\* Frame::Find: the obstacle with this id, as a set with zero or one element
\* (a null pointer is the empty set).
Find(frame, id) ==
    {frame.obstacles[i] : i \in {j \in DOMAIN frame.obstacles : frame.obstacles[j].id = id}}

\* ObstacleClassifier: the verdict is an input of the snapshot.
IsBlockingObstacleToSidePass(frame, obstacle) == obstacle.blocking

\* Longitudinal gap between the ego front edge and the obstacle.
GetDistanceBetweenADCAndObstacle(frame, obstacle) ==
    obstacle.start_s - frame.adc_end_s

\* The justification string "side pass obstacle: " + id.
Msg(id) == <<"side pass obstacle: ", id>>
NoMsg == <<>>

\* reference_line_info().front() on an empty list is undefined: the caller
\* reads garbage, so the call may return either boolean (or fail); ub marks
\* an outcome produced this way.
Defined(r) == [ret |-> r, ub |-> FALSE]
UndefinedResults == {[ret |-> r, ub |-> TRUE] : r \in BOOLEAN}

-----------------------------------------------------------------------------
(* SidePassScenario's predicates, as the sets of their possible outcomes.  *)

\* Mutant: the sanity check lets two reference lines through.
TooManyReferenceLines_OffByOne(frame) == frame.nref > 2

\* The sanity check that opens every predicate.
TooManyReferenceLines(frame) == frame.nref > 1

\* Mutant: a destination at exactly the clearance distance counts as too close.
TooCloseToDestination_Inclusive(frame) == frame.sdist <= kClearDistance

TooCloseToDestination(frame) == frame.sdist < kClearDistance

\* Outcomes [ret, ub].
IsFarFromDestination(frame) ==
    IF TooManyReferenceLines(frame) THEN {Defined(FALSE)}
    ELSE IF frame.nref = 0 THEN UndefinedResults
    ELSE IF TooCloseToDestination(frame) THEN {Defined(FALSE)}
    ELSE {Defined(TRUE)}

\* Mutant: the junction test that the source comments out is back.
IsRelevantOverlap_WithJunction(overlap) ==
    ~ (/\ overlap.type # "CLEAR_AREA"
       /\ overlap.type # "CROSSWALK"
       /\ overlap.type # "PNC_JUNCTION"
       /\ overlap.type # "SIGNAL"
       /\ overlap.type # "STOP_SIGN")

\* The overlap types the loop of IsFarFromIntersection does not skip.
IsRelevantOverlap(overlap) ==
    ~ (/\ overlap.type # "CLEAR_AREA"
       /\ overlap.type # "CROSSWALK"
       /\ overlap.type # "SIGNAL"
       /\ overlap.type # "STOP_SIGN")

\* One iteration's test: TRUE when this overlap makes the function return false.
IsTooCloseOverlap(frame, overlap) ==
    LET distance == overlap.start_s - frame.adc_end_s
    IN  /\ IsRelevantOverlap(overlap)
        /\ IF overlap.type = "SIGNAL"
           THEN distance < FLAGS_side_pass_min_signal_intersection_distance
           ELSE distance < kClearDistance

RECURSIVE ScanOverlaps(_, _)
ScanOverlaps(frame, i) ==
    IF i > Len(frame.overlaps) THEN TRUE
    ELSE IF IsTooCloseOverlap(frame, frame.overlaps[i]) THEN FALSE
    ELSE ScanOverlaps(frame, i + 1)

\* Outcomes [ret, ub].
IsFarFromIntersection(frame) ==
    IF TooManyReferenceLines(frame) THEN {Defined(FALSE)}
    ELSE IF frame.nref = 0 THEN UndefinedResults
    ELSE {Defined(ScanOverlaps(frame, 1))}

\* The loop of HasBlockingObstacle from obstacle i on. st carries the locals
\* (dist, exists), the two copies of the tracked id and the sequence of values
\* written to the cross-cycle slot so far.
\* The test that decides whether a blocking obstacle replaces the tracked one.
IsCloserBlockingObstacle(distance_to_closest, distance_to_obstacle) ==
    \/ distance_to_closest < 0
    \/ distance_to_obstacle < distance_to_closest

\* Mutant: the id is recorded in the context but not in the cross-cycle slot.
RecordClosestObstacle_ContextOnly(st, obstacle, distance) ==
    [dist |-> distance, exists |-> TRUE, ctx_id |-> obstacle.id,
     slot |-> st.slot, writes |-> st.writes]

\* The body of that test: the distance and the id are recorded, the id in the
\* context and then in the cross-cycle slot.
RecordClosestObstacle(st, obstacle, distance) ==
    [dist |-> distance, exists |-> TRUE, ctx_id |-> obstacle.id,
     slot |-> obstacle.id, writes |-> Append(st.writes, obstacle.id)]

RECURSIVE ScanObstacles(_, _, _)
ScanObstacles(frame, i, st) ==
    IF i > Len(frame.obstacles) THEN st
    ELSE LET obstacle == frame.obstacles[i]
             distance == GetDistanceBetweenADCAndObstacle(frame, obstacle)
         IN  IF IsBlockingObstacleToSidePass(frame, obstacle)
             THEN IF IsCloserBlockingObstacle(st.dist, distance)
                  THEN ScanObstacles(frame, i + 1,
                                     RecordClosestObstacle(st, obstacle, distance))
                  ELSE ScanObstacles(frame, i + 1, [st EXCEPT !.exists = TRUE])
             ELSE ScanObstacles(frame, i + 1, st)

\* Mutant: nothing blocks and the tracked id is left as it was.
NoBlockingObstacle_KeepsId(st) ==
    [ret |-> FALSE, ub |-> FALSE, ctx_id |-> st.ctx_id, slot |-> st.slot,
     writes |-> st.writes]

\* Mutant: nothing blocks and only the context's copy of the id is cleared.
NoBlockingObstacle_ClearsContextOnly(st) ==
    [ret |-> FALSE, ub |-> FALSE, ctx_id |-> EmptyId, slot |-> st.slot,
     writes |-> st.writes]

\* The else branch that ends HasBlockingObstacle when nothing blocks: the
\* tracked id is set to empty in the context and in the cross-cycle slot.
NoBlockingObstacle(st) ==
    [ret |-> FALSE, ub |-> FALSE, ctx_id |-> EmptyId, slot |-> EmptyId,
     writes |-> Append(st.writes, EmptyId)]

\* Mutant: the loop starts at the second obstacle.
HasBlockingObstacle_SkipsFirst(frame, ctx_id, slot) ==
    IF TooManyReferenceLines(frame)
    THEN {[ret |-> FALSE, ub |-> FALSE, ctx_id |-> ctx_id, slot |-> slot,
           writes |-> <<>>]}
    ELSE IF frame.nref = 0
    THEN {[ret |-> r, ub |-> TRUE, ctx_id |-> ctx_id, slot |-> slot,
           writes |-> <<>>] : r \in BOOLEAN}
    ELSE LET st == ScanObstacles(frame, 2,
                       [dist |-> kNoClosestDistance, exists |-> FALSE,
                        ctx_id |-> ctx_id, slot |-> slot, writes |-> <<>>])
         IN  IF st.exists
             THEN {[ret |-> TRUE, ub |-> FALSE, ctx_id |-> st.ctx_id,
                    slot |-> st.slot, writes |-> st.writes]}
             ELSE {NoBlockingObstacle(st)}

\* Outcomes of HasBlockingObstacle: [ret, ub, ctx_id, slot, writes]. With no
\* reference line the obstacle list it scans is garbage: the call fails before
\* it writes anything (either result), or finds the list empty and clears the
\* tracked id.
HasBlockingObstacle(frame, ctx_id, slot) ==
    IF TooManyReferenceLines(frame)
    THEN {[ret |-> FALSE, ub |-> FALSE, ctx_id |-> ctx_id, slot |-> slot,
           writes |-> <<>>]}
    ELSE IF frame.nref = 0
    THEN {[ret |-> r, ub |-> TRUE, ctx_id |-> ctx_id, slot |-> slot,
           writes |-> <<>>] : r \in BOOLEAN}
         \cup {[ret |-> FALSE, ub |-> TRUE, ctx_id |-> EmptyId,
                slot |-> EmptyId, writes |-> <<EmptyId>>]}
    ELSE LET st == ScanObstacles(frame, 1,
                       [dist |-> kNoClosestDistance, exists |-> FALSE,
                        ctx_id |-> ctx_id, slot |-> slot, writes |-> <<>>])
         IN  IF st.exists
             THEN {[ret |-> TRUE, ub |-> FALSE, ctx_id |-> st.ctx_id,
                    slot |-> st.slot, writes |-> st.writes]}
             ELSE {NoBlockingObstacle(st)}

\* Mutant: no entry while the cross-cycle slot still names an obstacle.
IsSidePassScenario_RefusesWhileTracking(frame, ctx_id, slot) ==
    LET Stop(r, u) == [ret |-> r, ub |-> u, ctx_id |-> ctx_id, slot |-> slot,
                       writes |-> <<>>, reached_hbo |-> FALSE]
        ThirdOperand(u) ==
            {[ret |-> h.ret, ub |-> u \/ h.ub, ctx_id |-> h.ctx_id,
              slot |-> h.slot, writes |-> h.writes, reached_hbo |-> TRUE] :
                 h \in HasBlockingObstacle(frame, ctx_id, slot)}
        SecondOperand(u) ==
            UNION {IF i.ret THEN ThirdOperand(u \/ i.ub) ELSE {Stop(FALSE, u \/ i.ub)} :
                      i \in IsFarFromIntersection(frame)}
    IN  IF slot # EmptyId THEN {Stop(FALSE, FALSE)}
        ELSE UNION {IF d.ret THEN SecondOperand(d.ub) ELSE {Stop(FALSE, d.ub)} :
                       d \in IsFarFromDestination(frame)}

\* Outcomes of IsSidePassScenario: [ret, ub, ctx_id, slot, writes, reached_hbo].
\* && evaluates left to right and stops at the first false operand.
IsSidePassScenario(frame, ctx_id, slot) ==
    LET Stop(r, u) == [ret |-> r, ub |-> u, ctx_id |-> ctx_id, slot |-> slot,
                       writes |-> <<>>, reached_hbo |-> FALSE]
        ThirdOperand(u) ==
            {[ret |-> h.ret, ub |-> u \/ h.ub, ctx_id |-> h.ctx_id,
              slot |-> h.slot, writes |-> h.writes, reached_hbo |-> TRUE] :
                 h \in HasBlockingObstacle(frame, ctx_id, slot)}
        SecondOperand(u) ==
            UNION {IF i.ret THEN ThirdOperand(u \/ i.ub) ELSE {Stop(FALSE, u \/ i.ub)} :
                      i \in IsFarFromIntersection(frame)}
    IN  UNION {IF d.ret THEN SecondOperand(d.ub) ELSE {Stop(FALSE, d.ub)} :
                  d \in IsFarFromDestination(frame)}

\* Mutant: a return of false also forgets the tracked obstacle.
ReturnWithoutScan_ClearsOnExit(ret, ub, ctx_id, slot, msg) ==
    [ret |-> ret, ub |-> ub,
     ctx_id |-> IF ret THEN ctx_id ELSE EmptyId,
     slot |-> IF ret THEN slot ELSE EmptyId, msg |-> msg,
     writes |-> <<>>, reached_hbo |-> FALSE]

\* A return of IsTransferable outside the entry evaluation: a result, and the
\* tracked id as it was.
ReturnWithoutScan(ret, ub, ctx_id, slot, msg) ==
    [ret |-> ret, ub |-> ub, ctx_id |-> ctx_id, slot |-> slot, msg |-> msg,
     writes |-> <<>>, reached_hbo |-> FALSE]

\* Mutants: the static check is dropped; the abort distance is inclusive.
IsMoving_Ignored(obstacle) == FALSE
ExceedsSidePassMaxDistance_Inclusive(obstacle_ego_distance) ==
    obstacle_ego_distance >= kSidePassMaxDistance

\* The tracked obstacle's checks of the continuation case.
IsMoving(obstacle) == ~ obstacle.is_static
ExceedsSidePassMaxDistance(obstacle_ego_distance) ==
    obstacle_ego_distance > kSidePassMaxDistance

\* Mutant: every scenario that is not SIDE_PASS is treated as LANE_FOLLOW.
IsOtherSpecialScenario_Never(scenario_type) == FALSE

\* The branch for a current scenario that is neither SIDE_PASS nor LANE_FOLLOW.
IsOtherSpecialScenario(scenario_type) == scenario_type # "LANE_FOLLOW"

\* Outcomes of IsTransferable:
\* [ret, ub, ctx_id, slot, msg, writes, reached_hbo].
IsTransferable(scenario_type, status, frame, ctx_id, slot, msg) ==
    LET Return(r, u, m) == ReturnWithoutScan(r, u, ctx_id, slot, m)
        front_blocking_obstacle_id == slot
        ptr_front_blocking_obstacle == Find(frame, front_blocking_obstacle_id)
    IN  IF TooManyReferenceLines(frame) THEN {Return(FALSE, FALSE, msg)}
        ELSE IF scenario_type = "SIDE_PASS"
        THEN IF ptr_front_blocking_obstacle = {} THEN {Return(FALSE, FALSE, msg)}
             ELSE LET obstacle == CHOOSE o \in ptr_front_blocking_obstacle : TRUE
                      obstacle_ego_distance == obstacle.start_s - frame.adc_end_s
                  IN  IF IsMoving(obstacle) THEN {Return(FALSE, FALSE, msg)}
                      ELSE IF frame.nref = 0
                      THEN {Return(FALSE, TRUE, msg),
                            Return(status # "STATUS_DONE", TRUE,
                                   Msg(front_blocking_obstacle_id))}
                      ELSE IF ExceedsSidePassMaxDistance(obstacle_ego_distance)
                      THEN {Return(FALSE, FALSE, msg)}
                      ELSE {Return(status # "STATUS_DONE", FALSE,
                                   Msg(front_blocking_obstacle_id))}
        ELSE IF IsOtherSpecialScenario(scenario_type) THEN {Return(FALSE, FALSE, msg)}
        ELSE {[ret |-> s.ret, ub |-> s.ub, ctx_id |-> s.ctx_id, slot |-> s.slot,
               msg |-> IF s.ret THEN Msg(front_blocking_obstacle_id) ELSE msg,
               writes |-> s.writes, reached_hbo |-> s.reached_hbo] :
                  s \in IsSidePassScenario(frame, ctx_id, slot)}

-----------------------------------------------------------------------------
(* The stage factory.                                                      *)

\* Mutant: the guard is inverted, so an empty factory stays empty.
RegisterStages_GuardInverted(factory) ==
    IF factory = {} THEN factory ELSE factory \cup {"SIDE_PASS_DEFAULT_STAGE"}

\* s_stage_factory_ after RegisterStages: the set of registered stage types
\* (the factory maps each key to one creator).
RegisterStages(factory) ==
    IF factory # {} THEN factory ELSE factory \cup {"SIDE_PASS_DEFAULT_STAGE"}

\* Factory::CreateObjectOrNull: TRUE when a stage object is produced.
CreateObjectOrNull(factory, stage_type) == stage_type \in factory

\* What a stage's context pointer holds: the address of the creating
\* instance's side_pass_context_, or nothing.
ContextOfScenario == "&side_pass_context_"
NoContext == "nullptr"

\* Mutant: an unknown stage type yields a stage all the same.
CreateStage_IgnoresLookupFailure(factory, stage_type) ==
    [factory |-> RegisterStages(factory), created |-> TRUE,
     context |-> ContextOfScenario]

\* Mutant: the stage is returned without SetContext.
CreateStage_WithoutSetContext(factory, stage_type) ==
    [factory |-> RegisterStages(factory),
     created |-> CreateObjectOrNull(RegisterStages(factory), stage_type),
     context |-> NoContext]

\* Outcome of CreateStage: the factory after the lazy registration, whether a
\* stage object is returned rather than nullptr, and the context pointer set
\* in that object.
CreateStage(factory, stage_type) ==
    LET ptr == CreateObjectOrNull(RegisterStages(factory), stage_type)
    IN  [factory |-> RegisterStages(factory), created |-> ptr,
         context |-> IF ptr THEN ContextOfScenario ELSE NoContext]

\* Mutant: the constructor leaves the context's id empty.
SidePassScenario_Unseeded(slot) == [front_blocking_obstacle_id_ |-> EmptyId]

\* The constructor: the context's id is seeded from the cross-cycle slot.
SidePassScenario(slot) == [front_blocking_obstacle_id_ |-> slot]

-----------------------------------------------------------------------------
(* State.                                                                  *)

VARIABLES
    frame,                \* the planning snapshot of the current cycle
    side_pass_front_blocking_obstacle_id,   \* the cross-cycle slot
    side_pass_context_,   \* the live scenario instance's context
    msg_,                 \* the live scenario instance's justification
    s_stage_factory_,     \* the registered stage types (static)
    stages,               \* the stages the live instance created
    call                  \* the last operation, its arguments and its result

vars == <<frame, side_pass_front_blocking_obstacle_id, side_pass_context_,
          msg_, s_stage_factory_, stages, call>>

\* The record of an operation; fields an operation does not have are "-",
\* FALSE or empty. pre_slot and pre_ctx_id are the two copies of the tracked
\* id as the operation found them, pre_factory and pre_stages the factory and
\* the live instance's stages as it found them.
Call(op, scenario_type, status, stage_type, ret, ub, reached_hbo, writes) ==
    [op |-> op, scenario_type |-> scenario_type, status |-> status,
     stage_type |-> stage_type, ret |-> ret, ub |-> ub,
     reached_hbo |-> reached_hbo, writes |-> writes,
     pre_slot |-> side_pass_front_blocking_obstacle_id,
     pre_ctx_id |-> side_pass_context_.front_blocking_obstacle_id_,
     pre_factory |-> s_stage_factory_, pre_stages |-> stages]

Init ==
    /\ frame \in FrameSet
    /\ side_pass_front_blocking_obstacle_id = EmptyId
    /\ side_pass_context_ = SidePassScenario(EmptyId)
    /\ msg_ = NoMsg
    /\ s_stage_factory_ = {}
    /\ stages = <<>>
    /\ call = [op |-> "Construct", scenario_type |-> "-", status |-> "-",
               stage_type |-> "-", ret |-> FALSE, ub |-> FALSE,
               reached_hbo |-> FALSE, writes |-> <<>>, pre_slot |-> EmptyId,
               pre_ctx_id |-> EmptyId, pre_factory |-> {}, pre_stages |-> <<>>]

\* Between two cycles there is no snapshot: the frame variable holds NoFrame
\* and no operation of the scenario runs.
NoFrame == Frame(0, 0, 0, <<>>, <<>>)
InCycle == call.op # "EndCycle"

\* The planning cycle ends and its snapshot is dropped.
EndCycle ==
    /\ InCycle
    /\ frame' = NoFrame
    /\ call' = Call("EndCycle", "-", "-", "-", FALSE, FALSE, FALSE, <<>>)
    /\ UNCHANGED <<side_pass_front_blocking_obstacle_id, side_pass_context_,
                   msg_, s_stage_factory_, stages>>

\* The next planning cycle delivers a new snapshot.
NewCycle ==
    /\ ~ InCycle
    /\ frame' \in FrameSet
    /\ call' = Call("NewCycle", "-", "-", "-", FALSE, FALSE, FALSE, <<>>)
    /\ UNCHANGED <<side_pass_front_blocking_obstacle_id, side_pass_context_,
                   msg_, s_stage_factory_, stages>>

\* A scenario instance is constructed and replaces the live one, whose stages
\* go with it.
Construct ==
    /\ InCycle
    /\ side_pass_context_' = SidePassScenario(side_pass_front_blocking_obstacle_id)
    /\ msg_' = NoMsg
    /\ stages' = <<>>
    /\ call' = Call("Construct", "-", "-", "-", FALSE, FALSE, FALSE, <<>>)
    /\ UNCHANGED <<frame, side_pass_front_blocking_obstacle_id, s_stage_factory_>>

CallRegisterStages ==
    /\ InCycle
    /\ s_stage_factory_' = RegisterStages(s_stage_factory_)
    /\ call' = Call("RegisterStages", "-", "-", "-", FALSE, FALSE, FALSE, <<>>)
    /\ UNCHANGED <<frame, side_pass_front_blocking_obstacle_id,
                   side_pass_context_, msg_, stages>>

CallCreateStage ==
    /\ InCycle
    /\ \E stage_type \in StageTypes :
        LET r == CreateStage(s_stage_factory_, stage_type)
        IN  /\ r.created => Len(stages) < MaxStages
            /\ s_stage_factory_' = r.factory
            /\ stages' = IF r.created
                         THEN Append(stages, [stage_type |-> stage_type,
                                              context |-> r.context])
                         ELSE stages
            /\ call' = Call("CreateStage", "-", "-", stage_type, r.created,
                            FALSE, FALSE, <<>>)
            /\ UNCHANGED <<frame, side_pass_front_blocking_obstacle_id,
                           side_pass_context_, msg_>>

CallIsTransferable ==
    /\ InCycle
    /\ \E scenario_type \in ScenarioTypes, status \in ScenarioStatuses :
        \E r \in IsTransferable(scenario_type, status, frame,
                                side_pass_context_.front_blocking_obstacle_id_,
                                side_pass_front_blocking_obstacle_id, msg_) :
            /\ side_pass_context_' =
                   [side_pass_context_ EXCEPT !.front_blocking_obstacle_id_ = r.ctx_id]
            /\ side_pass_front_blocking_obstacle_id' = r.slot
            /\ msg_' = r.msg
            /\ call' = Call("IsTransferable", scenario_type, status, "-", r.ret,
                            r.ub, r.reached_hbo, r.writes)
            /\ UNCHANGED <<frame, s_stage_factory_, stages>>

CallIsFarFromDestination ==
    /\ InCycle
    /\ \E r \in IsFarFromDestination(frame) :
        /\ call' = Call("IsFarFromDestination", "-", "-", "-", r.ret, r.ub,
                        FALSE, <<>>)
        /\ UNCHANGED <<frame, side_pass_front_blocking_obstacle_id,
                       side_pass_context_, msg_, s_stage_factory_, stages>>

CallIsFarFromIntersection ==
    /\ InCycle
    /\ \E r \in IsFarFromIntersection(frame) :
        /\ call' = Call("IsFarFromIntersection", "-", "-", "-", r.ret, r.ub,
                        FALSE, <<>>)
        /\ UNCHANGED <<frame, side_pass_front_blocking_obstacle_id,
                       side_pass_context_, msg_, s_stage_factory_, stages>>

CallHasBlockingObstacle ==
    /\ InCycle
    /\ \E r \in HasBlockingObstacle(frame,
                                 side_pass_context_.front_blocking_obstacle_id_,
                                 side_pass_front_blocking_obstacle_id) :
        /\ side_pass_context_' =
               [side_pass_context_ EXCEPT !.front_blocking_obstacle_id_ = r.ctx_id]
        /\ side_pass_front_blocking_obstacle_id' = r.slot
        /\ call' = Call("HasBlockingObstacle", "-", "-", "-", r.ret, r.ub,
                        TRUE, r.writes)
        /\ UNCHANGED <<frame, msg_, s_stage_factory_, stages>>

Next ==
    \/ EndCycle
    \/ NewCycle
    \/ Construct
    \/ CallRegisterStages
    \/ CallCreateStage
    \/ CallIsTransferable
    \/ CallIsFarFromDestination
    \/ CallIsFarFromIntersection
    \/ CallHasBlockingObstacle

Spec == Init /\ [][Next]_vars

\* IsFarFromIntersection on its own: a scenario instance as constructed, a
\* snapshot drawn from IntersectionFrames, and the predicate applied to it.
InitIntersection ==
    /\ frame \in IntersectionFrames
    /\ side_pass_front_blocking_obstacle_id = EmptyId
    /\ side_pass_context_ = SidePassScenario(EmptyId)
    /\ msg_ = NoMsg
    /\ s_stage_factory_ = {}
    /\ stages = <<>>
    /\ call = [op |-> "Construct", scenario_type |-> "-", status |-> "-",
               stage_type |-> "-", ret |-> FALSE, ub |-> FALSE,
               reached_hbo |-> FALSE, writes |-> <<>>, pre_slot |-> EmptyId,
               pre_ctx_id |-> EmptyId, pre_factory |-> {}, pre_stages |-> <<>>]

NextIntersection == CallIsFarFromIntersection

SpecIntersection == InitIntersection /\ [][NextIntersection]_vars

-----------------------------------------------------------------------------
(* Vocabulary of the properties, read off the snapshot and the state.      *)

TrackedInSlot == side_pass_front_blocking_obstacle_id
TrackedInContext == side_pass_context_.front_blocking_obstacle_id_

ObstaclesOf(f) == {f.obstacles[i] : i \in DOMAIN f.obstacles}
IdsOf(f) == {o.id : o \in ObstaclesOf(f)}
BlockingIdsOf(f) == {o.id : o \in {b \in ObstaclesOf(f) : b.blocking}}
GapOf(f, o) == o.start_s - f.adc_end_s

\* The obstacle the cross-cycle slot named when the operation started.
TrackedObstacles == {o \in ObstaclesOf(frame) : o.id = call.pre_slot}

\* No overlap of a relevant type is closer than its threshold.
NoOverlapTooClose(f) ==
    \A i \in DOMAIN f.overlaps :
        LET o == f.overlaps[i]
            d == o.start_s - f.adc_end_s
        IN  /\ o.type \in {"CLEAR_AREA", "CROSSWALK", "STOP_SIGN"} => d >= 15
            /\ o.type = "SIGNAL" =>
                   d >= FLAGS_side_pass_min_signal_intersection_distance

\* The first obstacle in scan order among the blocking ones at the smallest
\* distance.
ClosestBlockingId(f) ==
    LET B == {i \in DOMAIN f.obstacles : f.obstacles[i].blocking}
        g(i) == GapOf(f, f.obstacles[i])
        best == CHOOSE i \in B :
                    \A j \in B : g(i) < g(j) \/ (g(i) = g(j) /\ i <= j)
    IN  f.obstacles[best].id

Predicates ==
    {"IsTransferable", "IsFarFromDestination", "IsFarFromIntersection",
     "HasBlockingObstacle"}

-----------------------------------------------------------------------------
(* Properties.                                                             *)

\* C1: from LANE_FOLLOW on a snapshot with one reference line, IsTransferable
\* returns true exactly when the destination is not closer than 15, no relevant
\* overlap is closer than its threshold and some obstacle is blocking; and when
\* it returns true the cross-cycle slot holds the id of a blocking obstacle of
\* the snapshot.
C1_EntryRule ==
    (call.op = "IsTransferable" /\ call.scenario_type = "LANE_FOLLOW"
        /\ frame.nref = 1) =>
        /\ call.ret <=> (/\ frame.sdist >= 15
                         /\ NoOverlapTooClose(frame)
                         /\ BlockingIdsOf(frame) # {})
        /\ call.ret => TrackedInSlot \in BlockingIdsOf(frame)

\* C1 witness: an entry granted past an overlap that is far enough, with the
\* blocking obstacle's id in the slot.
C1_Witness ==
    /\ call.op = "IsTransferable" /\ call.scenario_type = "LANE_FOLLOW"
    /\ frame.nref = 1 /\ call.ret
    /\ Len(frame.overlaps) > 0
    /\ call.pre_slot # TrackedInSlot
    /\ TrackedInSlot \in BlockingIdsOf(frame)

\* C2: in SIDE_PASS on a snapshot with one reference line, with the tracked
\* obstacle present and static, IsTransferable returns false when the gap
\* obstacle.start - ego.end exceeds 10, and otherwise (10 included) returns
\* true unless the current scenario's status is DONE.
C2_ContinuationRule ==
    (call.op = "IsTransferable" /\ call.scenario_type = "SIDE_PASS"
        /\ frame.nref = 1) =>
        \A o \in TrackedObstacles :
            o.is_static =>
                (call.ret <=> (GapOf(frame, o) <= 10 /\ call.status # "STATUS_DONE"))

\* C2 witness: the maneuver continues at a gap of exactly 10.
C2_Witness ==
    /\ call.op = "IsTransferable" /\ call.scenario_type = "SIDE_PASS"
    /\ frame.nref = 1 /\ call.ret
    /\ \E o \in TrackedObstacles : o.is_static /\ GapOf(frame, o) = 10

\* C3: in SIDE_PASS, when the id in the cross-cycle slot names no obstacle of
\* the snapshot, or an obstacle that is not static, IsTransferable returns
\* false, for every gap and every status.
C3_StaleTrackedObstacle ==
    (call.op = "IsTransferable" /\ call.scenario_type = "SIDE_PASS"
        /\ (TrackedObstacles = {} \/ \E o \in TrackedObstacles : ~ o.is_static)) =>
        ~ call.ret

\* C3 witness: the tracked obstacle started to move while within the abort
\* distance, the scenario not being done.
C3_Witness ==
    /\ call.op = "IsTransferable" /\ call.scenario_type = "SIDE_PASS"
    /\ call.status = "STATUS_PROCESSING" /\ frame.nref = 1
    /\ \E o \in TrackedObstacles : ~ o.is_static /\ GapOf(frame, o) <= 10
    /\ ~ call.ret

\* C4: on a snapshot with more than one reference line IsTransferable,
\* IsFarFromDestination, IsFarFromIntersection and HasBlockingObstacle all
\* return false.
C4_AmbiguousTopology ==
    (call.op \in Predicates /\ frame.nref > 1) => ~ call.ret

\* C4 witness: a continuation that one reference line would have granted is
\* refused with two.
C4_Witness ==
    /\ call.op = "IsTransferable" /\ call.scenario_type = "SIDE_PASS"
    /\ call.status = "STATUS_PROCESSING" /\ frame.nref = 2
    /\ \E o \in TrackedObstacles : o.is_static /\ GapOf(frame, o) <= 10
    /\ ~ call.ret

\* C5: after HasBlockingObstacle on a snapshot with one reference line and
\* some blocking obstacle, the context and the cross-cycle slot both track the
\* blocking obstacle at the smallest distance, the first scanned among equals.
C5_ClosestWins ==
    (call.op = "HasBlockingObstacle" /\ frame.nref = 1
        /\ BlockingIdsOf(frame) # {}) =>
        /\ TrackedInSlot = ClosestBlockingId(frame)
        /\ TrackedInContext = ClosestBlockingId(frame)

\* C6 as stated, on snapshots with one reference line: after Construct,
\* IsTransferable, HasBlockingObstacle or CreateStage the tracked id, in the
\* context and in the slot, is empty or names an obstacle of the latest
\* snapshot.
C6_TrackedIdInLatestSnapshot ==
    (call.op \in {"Construct", "IsTransferable", "HasBlockingObstacle", "CreateStage"}
        /\ frame.nref = 1) =>
        {TrackedInSlot, TrackedInContext} \subseteq IdsOf(frame) \cup {EmptyId}

\* C6 as amended: after an evaluation of HasBlockingObstacle on a snapshot
\* with one reference line (called directly or by IsTransferable's entry
\* evaluation) the tracked id, in the context and in the slot, is empty or
\* names an obstacle of that snapshot.
C6_TrackedIdAfterScan ==
    (call.op \in {"IsTransferable", "HasBlockingObstacle"} /\ call.reached_hbo
        /\ frame.nref = 1) =>
        {TrackedInSlot, TrackedInContext} \subseteq IdsOf(frame) \cup {EmptyId}

\* C6 witness: an evaluation that found the id of a vanished obstacle and left
\* the id of a present one.
C6_Witness ==
    /\ call.op = "IsTransferable" /\ call.reached_hbo /\ frame.nref = 1
    /\ call.pre_slot \notin IdsOf(frame) \cup {EmptyId}
    /\ TrackedInSlot \in IdsOf(frame)
    /\ TrackedInContext = TrackedInSlot

\* C7: an IsTransferable call that does not reach HasBlockingObstacle, and
\* every IsFarFromDestination, IsFarFromIntersection and CreateStage call,
\* leaves the cross-cycle slot and the context's tracked id unchanged.
C7_OnlyTheScanMutates ==
    (/\ call.op \in {"IsTransferable", "IsFarFromDestination",
                     "IsFarFromIntersection", "CreateStage"}
     /\ ~ (call.op = "IsTransferable" /\ call.reached_hbo)) =>
        /\ TrackedInSlot = call.pre_slot
        /\ TrackedInContext = call.pre_ctx_id

\* C7 witness: an entry evaluation cut short by the destination, on a snapshot
\* whose blocking obstacle is not the tracked one.
C7_Witness ==
    /\ call.op = "IsTransferable" /\ call.scenario_type = "LANE_FOLLOW"
    /\ frame.nref = 1 /\ frame.sdist < 15 /\ ~ call.reached_hbo
    /\ BlockingIdsOf(frame) # {}
    /\ TrackedInSlot \in ObstacleIds \ BlockingIdsOf(frame)

\* C8: when the current scenario is neither SIDE_PASS nor LANE_FOLLOW,
\* IsTransferable returns false without evaluating HasBlockingObstacle.
C8_NonPreemption ==
    (call.op = "IsTransferable"
        /\ call.scenario_type \notin {"SIDE_PASS", "LANE_FOLLOW"}) =>
        ~ call.ret /\ ~ call.reached_hbo

\* C8 witness: another special scenario is active on a snapshot that meets
\* the entry rule.
C8_Witness ==
    /\ call.op = "IsTransferable" /\ call.scenario_type = "STOP_SIGN_UNPROTECTED"
    /\ frame.nref = 1 /\ frame.sdist >= 15 /\ NoOverlapTooClose(frame)
    /\ BlockingIdsOf(frame) # {}
    /\ ~ call.ret

\* C9: on a snapshot with one reference line HasBlockingObstacle returns true
\* exactly when some obstacle is blocking, and when none is the tracked id is
\* empty in the context and in the slot afterwards.
C9_BlockingObstacleResult ==
    (call.op = "HasBlockingObstacle" /\ frame.nref = 1) =>
        /\ call.ret <=> BlockingIdsOf(frame) # {}
        /\ BlockingIdsOf(frame) = {} =>
               TrackedInSlot = EmptyId /\ TrackedInContext = EmptyId

\* C9 witness: obstacles but none blocking, and a tracked id cleared.
C9_Witness ==
    /\ call.op = "HasBlockingObstacle" /\ frame.nref = 1
    /\ frame.obstacles # <<>> /\ BlockingIdsOf(frame) = {}
    /\ call.pre_slot \in ObstacleIds /\ call.pre_ctx_id \in ObstacleIds
    /\ ~ call.ret /\ TrackedInSlot = EmptyId /\ TrackedInContext = EmptyId

\* C10 as stated: after every HasBlockingObstacle evaluation, on any snapshot,
\* the slot holds a blocking obstacle's id when the call returned true and the
\* empty id when it returned false.
C10_SlotReflectsEveryEvaluation ==
    (call.op = "HasBlockingObstacle" /\ ~ call.ub) =>
        IF call.ret THEN TrackedInSlot \in BlockingIdsOf(frame)
        ELSE TrackedInSlot = EmptyId

\* C10 as amended: after every HasBlockingObstacle evaluation on a snapshot
\* with exactly one reference line the slot has been written and holds a
\* blocking obstacle's id when the call returned true and the empty id when it
\* returned false.
C10_SlotReflectsSingleLineEvaluation ==
    (call.op = "HasBlockingObstacle" /\ frame.nref = 1) =>
        /\ call.writes # <<>>
        /\ call.writes[Len(call.writes)] = TrackedInSlot
        /\ IF call.ret THEN TrackedInSlot \in BlockingIdsOf(frame)
           ELSE TrackedInSlot = EmptyId

\* C10 witness: an evaluation that returned true and replaced another
\* obstacle's id in the slot.
C10_Witness ==
    /\ call.op = "HasBlockingObstacle" /\ frame.nref = 1 /\ call.ret
    /\ call.pre_slot \in ObstacleIds
    /\ TrackedInSlot \in BlockingIdsOf(frame) \ {call.pre_slot}

\* C11: when IsTransferable is evaluated from LANE_FOLLOW on a snapshot with
\* one reference line and returns true, the justification recorded by the call
\* names the obstacle the call selected, the id the cross-cycle slot holds
\* after the call.
C11_EntryJustification ==
    (call.op = "IsTransferable" /\ call.scenario_type = "LANE_FOLLOW"
        /\ frame.nref = 1 /\ call.ret) =>
        msg_ = Msg(TrackedInSlot)

\* C12: IsTransferable, IsFarFromDestination, IsFarFromIntersection and
\* HasBlockingObstacle return a defined boolean on every snapshot, with zero,
\* one or several reference lines, for every scenario type and status.
C12_Totality ==
    call.op \in Predicates => ~ call.ub

\* C13: CreateStage with a stage type that is not registered returns null
\* without failing, and leaves the factory as registration left it and the
\* live instance's stages, the context's tracked id and the cross-cycle slot
\* as they were; whether or not the factory was registered before the call.
C13_UnregisteredStageType ==
    (call.op = "CreateStage" /\ call.stage_type \notin s_stage_factory_) =>
        /\ ~ call.ret /\ ~ call.ub
        /\ stages = call.pre_stages
        /\ s_stage_factory_ = IF call.pre_factory = {}
                              THEN {"SIDE_PASS_DEFAULT_STAGE"}
                              ELSE call.pre_factory
        /\ TrackedInContext = call.pre_ctx_id
        /\ TrackedInSlot = call.pre_slot

\* C13 witness: an unregistered stage type is asked for before any
\* registration, while an obstacle is tracked; nothing is created.
C13_Witness ==
    /\ call.op = "CreateStage"
    /\ call.stage_type = "SIDE_PASS_APPROACH_OBSTACLE"
    /\ call.pre_factory = {} /\ s_stage_factory_ # {}
    /\ ~ call.ret /\ stages = <<>>
    /\ TrackedInSlot \in ObstacleIds

\* C14: after one or more RegisterStages calls, made directly or by
\* CreateStage, the factory holds exactly the one registered stage type, as
\* after the first call; a later call leaves it as it found it.
C14_RegistrationIdempotent ==
    /\ s_stage_factory_ \in {{}, {"SIDE_PASS_DEFAULT_STAGE"}}
    /\ call.op \in {"RegisterStages", "CreateStage"} =>
           /\ s_stage_factory_ = {"SIDE_PASS_DEFAULT_STAGE"}
           /\ Cardinality(s_stage_factory_) = 1
           /\ call.pre_factory # {} => s_stage_factory_ = call.pre_factory

\* C14 witness: RegisterStages called on a factory that CreateStage or an
\* earlier call had already registered, on an instance with a stage.
C14_Witness ==
    /\ call.op = "RegisterStages"
    /\ call.pre_factory = {"SIDE_PASS_DEFAULT_STAGE"}
    /\ s_stage_factory_ = call.pre_factory
    /\ stages # <<>>

\* C15: on a snapshot with one reference line IsFarFromIntersection returns
\* false exactly when some overlap of type CLEAR_AREA, CROSSWALK or STOP_SIGN
\* starts less than 15 ahead of the ego front edge, or some SIGNAL overlap
\* less than the configured signal distance ahead; overlaps of other types
\* do not count, and a distance equal to the threshold is far.
C15_FarFromIntersection ==
    (call.op = "IsFarFromIntersection" /\ frame.nref = 1) =>
        (~ call.ret <=>
            \E i \in DOMAIN frame.overlaps :
                LET o == frame.overlaps[i]
                    d == o.start_s - frame.adc_end_s
                IN  \/ o.type \in {"CLEAR_AREA", "CROSSWALK", "STOP_SIGN"} /\ d < 15
                    \/ o.type = "SIGNAL"
                           /\ d < FLAGS_side_pass_min_signal_intersection_distance)

\* C15 witness: a junction closer than 15 followed by a crosswalk at exactly
\* 15; the result is true.
C15_Witness ==
    /\ call.op = "IsFarFromIntersection" /\ frame.nref = 1 /\ call.ret
    /\ Len(frame.overlaps) = 2
    /\ frame.overlaps[1].type = "PNC_JUNCTION"
    /\ frame.overlaps[1].start_s - frame.adc_end_s < 15
    /\ frame.overlaps[2].type = "CROSSWALK"
    /\ frame.overlaps[2].start_s - frame.adc_end_s = 15

\* The values the cross-cycle slot holds, one after the other, from the start
\* of the operation to its end: what a reader of the slot may observe while
\* the operation runs.
ObservableDuringCall ==
    {call.pre_slot} \cup {call.writes[i] : i \in DOMAIN call.writes}

\* C16: a reader of the cross-cycle slot during a HasBlockingObstacle
\* evaluation on a snapshot with one reference line observes the value held
\* before the evaluation or the value held after it, never another id.
C16_AtomicSlotWrite ==
    (call.op = "HasBlockingObstacle" /\ frame.nref = 1) =>
        ObservableDuringCall \subseteq {call.pre_slot, TrackedInSlot}

\* C17: a scenario instance constructed after an earlier instance's
\* HasBlockingObstacle evaluation starts with the context's id equal to the id
\* that evaluation left in the cross-cycle slot, and the construction leaves
\* the slot as it was.
C17_CrossCycleRoundTrip ==
    call.op = "Construct" =>
        /\ TrackedInContext = call.pre_slot
        /\ TrackedInSlot = call.pre_slot

\* C17 witness: an instance constructed in a cycle whose snapshot no longer has
\* the obstacle an earlier cycle's evaluation tracked; it starts with that id.
C17_Witness ==
    /\ call.op = "Construct" /\ frame.nref = 1
    /\ call.pre_slot \in ObstacleIds \ IdsOf(frame)
    /\ TrackedInContext = call.pre_slot

\* The entry rule, read off the snapshot.
EntryRuleHolds(f) ==
    /\ f.sdist >= 15
    /\ NoOverlapTooClose(f)
    /\ BlockingIdsOf(f) # {}

\* C18: whatever earlier cycles left in the cross-cycle slot and in the
\* context, IsTransferable from LANE_FOLLOW on a snapshot with one reference
\* line that meets the entry rule returns true; and on every such snapshot a
\* cycle delivers, the result is that of the entry rule for every id the slot
\* and the context may hold.
C18_ReEntry ==
    /\ (call.op = "IsTransferable" /\ call.scenario_type = "LANE_FOLLOW"
           /\ frame.nref = 1 /\ EntryRuleHolds(frame)) =>
           call.ret /\ call.reached_hbo
    /\ (call.op = "NewCycle" /\ frame.nref = 1) =>
           \A slot \in ObstacleIds \cup {EmptyId}, ctx_id \in ObstacleIds \cup {EmptyId},
              status \in ScenarioStatuses :
               \A r \in IsTransferable("LANE_FOLLOW", status, frame, ctx_id, slot, msg_) :
                   r.ret <=> EntryRuleHolds(frame)

\* C18 witness: the maneuver is entered again while the slot still names the
\* obstacle of an earlier cycle, one the snapshot no longer has.
C18_Witness ==
    /\ call.op = "IsTransferable" /\ call.scenario_type = "LANE_FOLLOW"
    /\ frame.nref = 1 /\ call.ret
    /\ call.pre_slot \in ObstacleIds \ IdsOf(frame)
    /\ call.pre_ctx_id \in ObstacleIds \ IdsOf(frame)
    /\ msg_ # NoMsg

\* The tracked id a stage reads through its context pointer; a stage without
\* a context reads none.
IdSeenBy(stage) ==
    IF stage.context = ContextOfScenario THEN {TrackedInContext} ELSE {}

\* C19: CreateStage with a registered stage type returns a stage, and every
\* stage of the live instance holds that instance's context: each reads the
\* tracked id the context holds now, whatever was written since the stage was
\* created.
C19_StagesShareContext ==
    /\ (call.op = "CreateStage" /\ call.stage_type \in s_stage_factory_) =>
           /\ call.ret
           /\ Len(stages) = Len(call.pre_stages) + 1
           /\ stages[Len(stages)].stage_type = call.stage_type
    /\ \A i \in DOMAIN stages : IdSeenBy(stages[i]) = {TrackedInContext}

\* C19 witness: two stages of one instance, and an evaluation after their
\* creation that changed the tracked id both read.
C19_Witness ==
    /\ Len(stages) = 2
    /\ call.op = "HasBlockingObstacle"
    /\ call.pre_stages = stages
    /\ TrackedInContext \in ObstacleIds
    /\ TrackedInContext # call.pre_ctx_id
    /\ \A i \in DOMAIN stages : IdSeenBy(stages[i]) = {TrackedInContext}

\* C20: after Construct and after every IsTransferable, HasBlockingObstacle
\* and CreateStage call the context's tracked id equals the cross-cycle slot,
\* so the id the continuation case looks up is the one the context tracks.
C20_ContextEqualsSlot ==
    call.op \in {"Construct", "IsTransferable", "HasBlockingObstacle", "CreateStage"} =>
        TrackedInContext = TrackedInSlot

\* C20 witness: a continuation granted on the obstacle that both the slot and
\* the context name, after an evaluation in an earlier call replaced both.
C20_Witness ==
    /\ call.op = "IsTransferable" /\ call.scenario_type = "SIDE_PASS"
    /\ call.ret /\ frame.nref = 1
    /\ TrackedInSlot \in IdsOf(frame)
    /\ TrackedInContext = TrackedInSlot
    /\ msg_ = Msg(TrackedInContext)

====
